---- MODULE Spec2Model ----
(***************************************************************************)
(* Bulk submission pipeline of slade360/api.py: send_claims_in_bulk fans   *)
(* bundled claims out over a ThreadPoolExecutor, send_a_claim_and_its_     *)
(* children creates the claim, its invoices and its credit notes one call  *)
(* after the other and collects attachment tasks, and _process_tasks runs  *)
(* the tasks on worker threads that share one Queue.                       *)
(* The session of wrappers/__init__.py, whose token _make_request renews   *)
(* when it has expired, is modelled by SpecSession.                        *)
(***************************************************************************)
EXTENDS Naturals, Sequences, FiniteSets

\* ------------------------------------------------------------------ bounds
MaxClaims == 2
MaxInvoices == 2
MaxCreditNotes == 1
MaxClaimAttachments == 2
MaxNestedAttachments == 1
MaxCpu == 2
MaxBulkWorkers == 2
MaxBulkChildren == 1
MaxTime == 3
MaxExpiresIn == 2
MaxRequestThreads == 2

VARIABLES
    bundled_claims,          \* the caller's list of bundled records
    num_of_workers,          \* max_workers of the ThreadPoolExecutor
    DEFAULT_NUM_OF_WORKERS,  \* os.cpu_count() or 4, fixed at import
    main,                    \* position of the caller of send_claims_in_bulk
    work_queue,              \* work items of the executor not yet taken
    executor,                \* executor thread -> claim it runs (0: idle)
    pc,                      \* claim -> position of its orchestrator call
    invoices,                \* claim -> local invoices
    claim_attachments,       \* claim -> local claim_attachments
    credit_notes,            \* claim -> local credit_notes
    claim_id,                \* claim -> claim_resp["id"]
    tasks,                   \* claim -> deque of (func, args)
    k,                       \* claim -> index of the loop in progress
    queue,                   \* claim -> items of the Queue of _process_tasks
    unfinished,              \* claim -> Queue.unfinished_tasks
    threads,                 \* claim -> threads started by _process_tasks
    calls,                   \* claim -> creation calls made so far (history)
    invoked,                 \* claim -> task -> number of func(*args) calls
    acked,                   \* claim -> task -> number of task_done calls
    log,                     \* records written with LOGGER.error
    requests,                \* upload requests sent with _make_request
    kwargs,                  \* claim -> keyword names create_claim was called with
    now,                     \* datetime.now(), in seconds
    session_expiry,          \* self.session_expiry, in seconds
    headers,                 \* thread whose token is in session.headers (0: __init__)
    mr                       \* thread -> its call of _make_request

vars == <<bundled_claims, num_of_workers, DEFAULT_NUM_OF_WORKERS, main,
          work_queue, executor, pc, invoices, claim_attachments, credit_notes,
          claim_id, tasks, k, queue, unfinished, threads, calls, invoked,
          acked, log, requests, kwargs, now, session_expiry, headers,
          mr>>

\* The state of the submission pipeline and the state of the session.
claimVars == <<bundled_claims, num_of_workers, DEFAULT_NUM_OF_WORKERS, main,
               work_queue, executor, pc, invoices, claim_attachments,
               credit_notes, claim_id, tasks, k, queue, unfinished, threads,
               calls, invoked, acked, log, requests, kwargs>>
sessionVars == <<now, session_expiry, headers, mr>>

\* ------------------------------------------------------------------ inputs
SeqsUpTo(S, n) == UNION {[1..m -> S] : m \in 0..n}

\* An invoice or credit-note record: whether it carries the nested
\* attachments key, and how many entries that list holds.
NestedRecords ==
    {[has_attachments |-> FALSE, attachments |-> 0]} \cup
    {[has_attachments |-> TRUE, attachments |-> a] : a \in 0..MaxNestedAttachments}

BundledClaims ==
    [fields : {"claim_fields"},
     invoices : SeqsUpTo(NestedRecords, MaxInvoices),
     claim_attachments : 0..MaxClaimAttachments,
     credit_notes : SeqsUpTo(NestedRecords, MaxCreditNotes)]

\* The batches of several small claims: each claim has at most
\* MaxBulkChildren invoices, credit notes and claim attachments in all.
BulkBundledClaims ==
    {b \in BundledClaims :
        Len(b.invoices) + Len(b.credit_notes) + b.claim_attachments
            <= MaxBulkChildren}

Claims == DOMAIN bundled_claims

None == 0

\* An executor with one thread per bundled claim.
ExecutorThreadPerClaim == 1..Len(bundled_claims)

\* The threads of ThreadPoolExecutor(max_workers=num_of_workers).
ExecutorThreads == 1..num_of_workers

\* The threads that call _make_request on the one shared session.
RequestThreads == 1..MaxRequestThreads

\* A thread that has not entered _make_request.
Idle ==
    [pc |-> "idle", entered_at |-> 0, expiry_read |-> 0,
     authenticate |-> "none", expires_in |-> 0, set_at |-> 0,
     requested |-> FALSE]

\* The session after __init__: authenticate() has set session_expiry to the
\* time of construction plus the expires_in of the first token.
SessionInit(lifetimes) ==
    /\ now = 0
    /\ session_expiry \in lifetimes
    /\ headers = 0
    /\ mr = [t \in RequestThreads |-> Idle]

\* The state in which send_claims_in_bulk(batch, n) is called, for every
\* batch of `batches`.
InitWith(batches) ==
    /\ bundled_claims \in batches
    /\ num_of_workers \in 1..MaxBulkWorkers
    /\ DEFAULT_NUM_OF_WORKERS \in 1..MaxCpu
    /\ main = "call"
    /\ work_queue = <<>>
    /\ executor = [e \in ExecutorThreads |-> 0]
    /\ pc = [c \in Claims |-> "unsubmitted"]
    /\ invoices = [c \in Claims |-> <<>>]
    /\ claim_attachments = [c \in Claims |-> 0]
    /\ credit_notes = [c \in Claims |-> <<>>]
    /\ claim_id = [c \in Claims |-> <<>>]
    /\ tasks = [c \in Claims |-> <<>>]
    /\ k = [c \in Claims |-> 0]
    /\ queue = [c \in Claims |-> <<>>]
    /\ unfinished = [c \in Claims |-> 0]
    /\ threads = [c \in Claims |-> <<>>]
    /\ calls = [c \in Claims |-> <<>>]
    /\ invoked = [c \in Claims |-> <<>>]
    /\ acked = [c \in Claims |-> <<>>]
    /\ log = {}
    /\ requests = {}
    /\ kwargs = [c \in Claims |-> {}]
    /\ SessionInit({MaxExpiresIn})

\* A batch of one bundled claim.
Init == InitWith([1..1 -> BundledClaims])

\* A batch of up to MaxClaims small claims.
InitBulk == InitWith(SeqsUpTo(BulkBundledClaims, MaxClaims))

\* ------------------------------------------------------------- helpers
Without(rec, keys) == [f \in DOMAIN rec \ keys |-> rec[f]]

PopKey(rec, key, default) == IF key \in DOMAIN rec THEN rec[key] ELSE default

Replace(seq, i, v) == [seq EXCEPT ![i] = v]

\* The claims whose send_a_claim_and_its_children invocation is in progress.
Terminal == {"returned", "raised"}
NotStarted == {"unsubmitted", "submitted"}
InProgress(c) == pc[c] \notin Terminal \cup NotStarted

\* Server-assigned identifiers of the responses.
ClaimId(c) == <<"claim", c>>
InvoiceId(c, n) == <<"invoice", c, n>>
CreditNoteId(c, n) == <<"credit_note", c, n>>

\* The work item of claim c ends with `result`: the future is resolved and
\* the executor thread that ran it is free for the next work item.
Finish(c, result) ==
    /\ pc' = [pc EXCEPT ![c] = result]
    /\ executor' = [e \in DOMAIN executor |->
                        IF executor[e] = c THEN 0 ELSE executor[e]]

\* ------------------------------------------------ send_claims_in_bulk
\* executor.map, one iteration: the next bundled claim of the list is
\* submitted as a work item.
ExecutorSubmit ==
    /\ main = "call"
    /\ \E c \in Claims :
        /\ pc[c] = "unsubmitted"
        /\ \A d \in 1..(c - 1) : pc[d] # "unsubmitted"
        /\ work_queue' = Append(work_queue, c)
        /\ pc' = [pc EXCEPT ![c] = "submitted"]
    /\ UNCHANGED <<bundled_claims, num_of_workers, DEFAULT_NUM_OF_WORKERS,
                   main, executor, invoices, claim_attachments, credit_notes,
                   claim_id, tasks, k, queue, unfinished, threads, calls,
                   invoked, acked, log, requests, kwargs,
                   sessionVars>>

\* executor.map returns its iterator, which nobody reads; the with block
\* ends.
ExecutorMapReturn ==
    /\ main = "call"
    /\ \A c \in Claims : pc[c] # "unsubmitted"
    /\ main' = "shutdown"
    /\ UNCHANGED <<bundled_claims, num_of_workers, DEFAULT_NUM_OF_WORKERS,
                   work_queue, executor, pc, invoices, claim_attachments,
                   credit_notes, claim_id, tasks, k, queue, unfinished,
                   threads, calls, invoked, acked, log, requests, kwargs,
                   sessionVars>>

\* A work-item loop that gives up the items still waiting once a claim has
\* raised.
ExecutorRunCancelOnFailure(e) ==
    /\ executor[e] = 0
    /\ work_queue # <<>>
    /\ IF \E c \in Claims : pc[c] = "raised"
       THEN /\ work_queue' = <<>>
            /\ UNCHANGED <<executor, pc>>
       ELSE /\ executor' = [executor EXCEPT ![e] = Head(work_queue)]
            /\ work_queue' = Tail(work_queue)
            /\ pc' = [pc EXCEPT ![Head(work_queue)] = "entered"]
    /\ UNCHANGED <<bundled_claims, num_of_workers, DEFAULT_NUM_OF_WORKERS,
                   main, invoices, claim_attachments, credit_notes, claim_id,
                   tasks, k, queue, unfinished, threads, calls, invoked,
                   acked, log, requests, kwargs,
                   sessionVars>>

\* An idle executor thread takes the oldest work item and enters
\* send_a_claim_and_its_children with it.
ExecutorRun(e) ==
    /\ executor[e] = 0
    /\ work_queue # <<>>
    /\ executor' = [executor EXCEPT ![e] = Head(work_queue)]
    /\ work_queue' = Tail(work_queue)
    /\ pc' = [pc EXCEPT ![Head(work_queue)] = "entered"]
    /\ UNCHANGED <<bundled_claims, num_of_workers, DEFAULT_NUM_OF_WORKERS,
                   main, invoices, claim_attachments, credit_notes, claim_id,
                   tasks, k, queue, unfinished, threads, calls, invoked,
                   acked, log, requests, kwargs,
                   sessionVars>>

\* The end of the call as it would be if the results of executor.map were
\* read: the first error of a claim is raised again in the caller.
ExecutorShutdownReraise ==
    /\ main = "shutdown"
    /\ work_queue = <<>>
    /\ \A e \in DOMAIN executor : executor[e] = 0
    /\ main' = IF \E c \in Claims : pc[c] = "raised"
               THEN "raised" ELSE "returned"
    /\ UNCHANGED <<bundled_claims, num_of_workers, DEFAULT_NUM_OF_WORKERS,
                   work_queue, executor, pc, invoices, claim_attachments,
                   credit_notes, claim_id, tasks, k, queue, unfinished,
                   threads, calls, invoked, acked, log, requests, kwargs,
                   sessionVars>>

\* The end of the with block as it would be with shutdown(wait=False).
ExecutorShutdownNoWait ==
    /\ main = "shutdown"
    /\ main' = "returned"
    /\ UNCHANGED <<bundled_claims, num_of_workers, DEFAULT_NUM_OF_WORKERS,
                   work_queue, executor, pc, invoices, claim_attachments,
                   credit_notes, claim_id, tasks, k, queue, unfinished,
                   threads, calls, invoked, acked, log, requests, kwargs,
                   sessionVars>>

\* Leaving the with block: shutdown(wait=True) returns once no work item is
\* left and every executor thread has finished its item.
ExecutorShutdown ==
    /\ main = "shutdown"
    /\ work_queue = <<>>
    /\ \A e \in DOMAIN executor : executor[e] = 0
    /\ main' = "returned"
    /\ UNCHANGED <<bundled_claims, num_of_workers, DEFAULT_NUM_OF_WORKERS,
                   work_queue, executor, pc, invoices, claim_attachments,
                   credit_notes, claim_id, tasks, k, queue, unfinished,
                   threads, calls, invoked, acked, log, requests, kwargs,
                   sessionVars>>

\* The extraction as it would be with bundled_claim.get(...): the sub-lists
\* are read and the record is left as it was.
PopChildrenKeepKeys(c) ==
    /\ pc[c] = "entered"
    /\ invoices' = [invoices EXCEPT
                        ![c] = PopKey(bundled_claims[c], "invoices", <<>>)]
    /\ claim_attachments' = [claim_attachments EXCEPT
                        ![c] = PopKey(bundled_claims[c], "claim_attachments", 0)]
    /\ credit_notes' = [credit_notes EXCEPT
                        ![c] = PopKey(bundled_claims[c], "credit_notes", <<>>)]
    /\ pc' = [pc EXCEPT ![c] = "popped"]
    /\ UNCHANGED <<bundled_claims, num_of_workers, DEFAULT_NUM_OF_WORKERS,
                   main, work_queue, executor, claim_id, tasks, k, queue,
                   unfinished, threads, calls, invoked, acked, log, requests,
                   kwargs,
                   sessionVars>>

\* -------------------------------------- send_a_claim_and_its_children
\* The three pops: the lists leave the caller's record.
PopChildren(c) ==
    /\ pc[c] = "entered"
    /\ invoices' = [invoices EXCEPT
                        ![c] = PopKey(bundled_claims[c], "invoices", <<>>)]
    /\ claim_attachments' = [claim_attachments EXCEPT
                        ![c] = PopKey(bundled_claims[c], "claim_attachments", 0)]
    /\ credit_notes' = [credit_notes EXCEPT
                        ![c] = PopKey(bundled_claims[c], "credit_notes", <<>>)]
    /\ bundled_claims' = [bundled_claims EXCEPT
                        ![c] = Without(@, {"invoices", "claim_attachments",
                                           "credit_notes"})]
    /\ pc' = [pc EXCEPT ![c] = "popped"]
    /\ UNCHANGED <<num_of_workers, DEFAULT_NUM_OF_WORKERS, main, work_queue,
                   executor, claim_id, tasks, k, queue, unfinished, threads,
                   calls, invoked, acked, log, requests, kwargs,
                   sessionVars>>

\* What a creation call can do: return a response with an id, return a
\* response without one (the ["id"] lookup raises), or raise.
CreationOutcomes == {"ok", "no_id", "error"}

\* The results with which a creation call leaves the orchestrator by an
\* error: the request failed, the response held no id, or the call was
\* rejected for its keyword arguments before any request.
Failures == {"no_id", "error", "type_error"}

CreateClaimCall(c) ==
    /\ pc[c] = "popped"
    /\ calls' = [calls EXCEPT ![c] =
                    Append(@, [op |-> "create_claim", n |-> 0,
                               result |-> "pending"])]
    /\ kwargs' = [kwargs EXCEPT ![c] = DOMAIN bundled_claims[c]]
    /\ pc' = [pc EXCEPT ![c] = "create_claim"]
    /\ UNCHANGED <<bundled_claims, num_of_workers, DEFAULT_NUM_OF_WORKERS,
                   main, work_queue, executor, invoices, claim_attachments,
                   credit_notes, claim_id, tasks, k, queue, unfinished,
                   threads, invoked, acked, log, requests,
                   sessionVars>>

\* The last call of the claim's history ends with `r`.
SetResult(c, r) ==
    calls' = [calls EXCEPT ![c] =
                 Replace(@, Len(@), [@[Len(@)] EXCEPT !.result = r])]

\* tasks.append for each element of `new`, in order.
AppendTasks(c, new) ==
    /\ tasks' = [tasks EXCEPT ![c] = @ \o new]
    /\ invoked' = [invoked EXCEPT ![c] = @ \o [n \in DOMAIN new |-> 0]]
    /\ acked' = [acked EXCEPT ![c] = @ \o [n \in DOMAIN new |-> 0]]

\* create_claim as it would be with its failure swallowed: whatever the
\* call does, the orchestration goes on with the id it has.
CreateClaimReturnSwallowed(c) ==
    /\ pc[c] = "create_claim"
    /\ \E r \in CreationOutcomes :
        /\ SetResult(c, r)
        /\ claim_id' = [claim_id EXCEPT
                            ![c] = IF r = "ok" THEN ClaimId(c) ELSE @]
    /\ pc' = [pc EXCEPT ![c] = "claim_attachments"]
    /\ UNCHANGED <<bundled_claims, num_of_workers, DEFAULT_NUM_OF_WORKERS,
                   main, work_queue, executor, invoices, claim_attachments,
                   credit_notes, tasks, k, queue, unfinished, threads,
                   invoked, acked, log, requests, kwargs,
                   sessionVars>>

\* create_claim as it would be with a retry: after a failure the call is
\* made again.
CreateClaimReturnRetry(c) ==
    /\ pc[c] = "create_claim"
    /\ \E r \in CreationOutcomes :
        /\ SetResult(c, r)
        /\ IF r = "ok"
           THEN /\ claim_id' = [claim_id EXCEPT ![c] = ClaimId(c)]
                /\ pc' = [pc EXCEPT ![c] = "claim_attachments"]
           ELSE /\ pc' = [pc EXCEPT ![c] = "popped"]
                /\ UNCHANGED claim_id
    /\ UNCHANGED <<bundled_claims, num_of_workers, DEFAULT_NUM_OF_WORKERS,
                   main, work_queue, executor, invoices, claim_attachments,
                   credit_notes, tasks, k, queue, unfinished, threads,
                   invoked, acked, log, requests, kwargs,
                   sessionVars>>

\* create_claim returns or raises; claim_resp["id"] is read.
CreateClaimReturn(c) ==
    /\ pc[c] = "create_claim"
    /\ \E r \in CreationOutcomes :
        /\ SetResult(c, r)
        /\ IF r = "ok"
           THEN /\ claim_id' = [claim_id EXCEPT ![c] = ClaimId(c)]
                /\ pc' = [pc EXCEPT ![c] = "claim_attachments"]
                /\ UNCHANGED executor
           ELSE /\ Finish(c, "raised")
                /\ UNCHANGED claim_id
    /\ UNCHANGED <<bundled_claims, num_of_workers, DEFAULT_NUM_OF_WORKERS,
                   main, work_queue, invoices, claim_attachments,
                   credit_notes, tasks, k, queue, unfinished, threads,
                   invoked, acked, log, requests, kwargs,
                   sessionVars>>

\* _process_claim_attachments: one task per claim attachment, bound to
\* claim_id.
ClaimAttachmentTasks(c) ==
    [n \in 1..claim_attachments[c] |->
        [func |-> "submit_claim_attachment", id |-> claim_id[c],
         attachment |-> n]]

\* _process_claim_attachments as it would be if it ran its tasks at once
\* instead of leaving them on the list.
ProcessClaimAttachmentsRunAtOnce(c) ==
    /\ pc[c] = "claim_attachments"
    /\ AppendTasks(c, ClaimAttachmentTasks(c))
    /\ pc' = [pc EXCEPT ![c] = "start_threads"]
    /\ UNCHANGED <<bundled_claims, num_of_workers, DEFAULT_NUM_OF_WORKERS,
                   main, work_queue, executor, invoices, claim_attachments,
                   credit_notes, claim_id, k, queue, unfinished, threads,
                   calls, log, requests, kwargs, sessionVars>>

ProcessClaimAttachments(c) ==
    /\ pc[c] = "claim_attachments"
    /\ AppendTasks(c, ClaimAttachmentTasks(c))
    /\ pc' = [pc EXCEPT ![c] = "invoices"]
    /\ k' = [k EXCEPT ![c] = 1]
    /\ UNCHANGED <<bundled_claims, num_of_workers, DEFAULT_NUM_OF_WORKERS,
                   main, work_queue, executor, invoices, claim_attachments,
                   credit_notes, claim_id, queue, unfinished, threads, calls,
                   log, requests, kwargs,
                   sessionVars>>

\* submit_invoices and submit_credit_note take the record's entries as
\* keyword arguments and name no parameter for the nested attachments: a
\* record that carries them makes the call raise before any request.
SubmitOutcomes(rec) ==
    IF rec.has_attachments THEN {"type_error"} ELSE CreationOutcomes

\* rec.get("invoice_attachments", []) / rec.get("crn_attachments", []): one
\* submit_invoice_attachment task per entry, bound to the parent's id.
NestedTasks(id, rec) ==
    [n \in 1..(IF rec.has_attachments THEN rec.attachments ELSE 0) |->
        [func |-> "submit_invoice_attachment", id |-> id, attachment |-> n]]

\* _process_invoices as it would be if it went through the list from its
\* end.
SubmitInvoicesCallReversed(c) ==
    /\ pc[c] = "invoices"
    /\ k[c] <= Len(invoices[c])
    /\ calls' = [calls EXCEPT ![c] =
                    Append(@, [op |-> "submit_invoices",
                               n |-> Len(invoices[c]) + 1 - k[c],
                               result |-> "pending"])]
    /\ pc' = [pc EXCEPT ![c] = "submit_invoices"]
    /\ UNCHANGED <<bundled_claims, num_of_workers, DEFAULT_NUM_OF_WORKERS,
                   main, work_queue, executor, invoices, claim_attachments,
                   credit_notes, claim_id, tasks, k, queue, unfinished,
                   threads, invoked, acked, log, requests, kwargs,
                   sessionVars>>

\* _process_invoices: the call of one iteration.
SubmitInvoicesCall(c) ==
    /\ pc[c] = "invoices"
    /\ k[c] <= Len(invoices[c])
    /\ calls' = [calls EXCEPT ![c] =
                    Append(@, [op |-> "submit_invoices", n |-> k[c],
                               result |-> "pending"])]
    /\ pc' = [pc EXCEPT ![c] = "submit_invoices"]
    /\ UNCHANGED <<bundled_claims, num_of_workers, DEFAULT_NUM_OF_WORKERS,
                   main, work_queue, executor, invoices, claim_attachments,
                   credit_notes, claim_id, tasks, k, queue, unfinished,
                   threads, invoked, acked, log, requests, kwargs,
                   sessionVars>>

\* _process_invoices as it would be with the call's failure swallowed: the
\* invoice's attachment tasks are appended whatever the call does.
SubmitInvoicesReturnSwallowed(c) ==
    /\ pc[c] = "submit_invoices"
    /\ \E r \in SubmitOutcomes(invoices[c][k[c]]) : SetResult(c, r)
    /\ AppendTasks(c, NestedTasks(InvoiceId(c, k[c]), invoices[c][k[c]]))
    /\ k' = [k EXCEPT ![c] = @ + 1]
    /\ pc' = [pc EXCEPT ![c] = "invoices"]
    /\ UNCHANGED <<bundled_claims, num_of_workers, DEFAULT_NUM_OF_WORKERS,
                   main, work_queue, executor, invoices, claim_attachments,
                   credit_notes, claim_id, queue, unfinished, threads, log,
                   requests, kwargs,
                   sessionVars>>

\* _process_invoices as it would be if a failed call were skipped and the
\* loop went on with the next invoice.
SubmitInvoicesReturnSkipFailed(c) ==
    /\ pc[c] = "submit_invoices"
    /\ \E r \in SubmitOutcomes(invoices[c][k[c]]) :
        /\ SetResult(c, r)
        /\ IF r = "ok"
           THEN AppendTasks(c, NestedTasks(InvoiceId(c, k[c]),
                                           invoices[c][k[c]]))
           ELSE UNCHANGED <<tasks, invoked, acked>>
    /\ k' = [k EXCEPT ![c] = @ + 1]
    /\ pc' = [pc EXCEPT ![c] = "invoices"]
    /\ UNCHANGED <<bundled_claims, num_of_workers, DEFAULT_NUM_OF_WORKERS,
                   main, work_queue, executor, invoices, claim_attachments,
                   credit_notes, claim_id, queue, unfinished, threads, log,
                   requests, kwargs,
                   sessionVars>>

\* _process_invoices: the call returns, inv_response["id"] is read and the
\* invoice's attachment tasks are appended; or the error leaves the function.
SubmitInvoicesReturn(c) ==
    /\ pc[c] = "submit_invoices"
    /\ \E r \in SubmitOutcomes(invoices[c][k[c]]) :
        /\ SetResult(c, r)
        /\ IF r = "ok"
           THEN /\ AppendTasks(c, NestedTasks(InvoiceId(c, k[c]),
                                              invoices[c][k[c]]))
                /\ k' = [k EXCEPT ![c] = @ + 1]
                /\ pc' = [pc EXCEPT ![c] = "invoices"]
                /\ UNCHANGED executor
           ELSE /\ Finish(c, "raised")
                /\ UNCHANGED <<tasks, invoked, acked, k>>
    /\ UNCHANGED <<bundled_claims, num_of_workers, DEFAULT_NUM_OF_WORKERS,
                   main, work_queue, invoices, claim_attachments,
                   credit_notes, claim_id, queue, unfinished, threads, log,
                   requests, kwargs,
                   sessionVars>>

\* _process_invoices returns after the last invoice.
ProcessInvoicesReturn(c) ==
    /\ pc[c] = "invoices"
    /\ k[c] > Len(invoices[c])
    /\ pc' = [pc EXCEPT ![c] = "credit_notes"]
    /\ k' = [k EXCEPT ![c] = 1]
    /\ UNCHANGED <<bundled_claims, num_of_workers, DEFAULT_NUM_OF_WORKERS,
                   main, work_queue, executor, invoices, claim_attachments,
                   credit_notes, claim_id, tasks, queue, unfinished, threads,
                   calls, invoked, acked, log, requests, kwargs,
                   sessionVars>>

\* _process_credit_notes: the call of one iteration.
SubmitCreditNoteCall(c) ==
    /\ pc[c] = "credit_notes"
    /\ k[c] <= Len(credit_notes[c])
    /\ calls' = [calls EXCEPT ![c] =
                    Append(@, [op |-> "submit_credit_note", n |-> k[c],
                               result |-> "pending"])]
    /\ pc' = [pc EXCEPT ![c] = "submit_credit_note"]
    /\ UNCHANGED <<bundled_claims, num_of_workers, DEFAULT_NUM_OF_WORKERS,
                   main, work_queue, executor, invoices, claim_attachments,
                   credit_notes, claim_id, tasks, k, queue, unfinished,
                   threads, invoked, acked, log, requests, kwargs,
                   sessionVars>>

\* The credit-note loop as it would be if a failed call let the tasks
\* collected so far run before the error left the invocation.
SubmitCreditNoteReturnRunTasks(c) ==
    /\ pc[c] = "submit_credit_note"
    /\ \E r \in SubmitOutcomes(credit_notes[c][k[c]]) :
        /\ SetResult(c, r)
        /\ IF r = "ok"
           THEN /\ AppendTasks(c, NestedTasks(CreditNoteId(c, k[c]),
                                              credit_notes[c][k[c]]))
                /\ k' = [k EXCEPT ![c] = @ + 1]
                /\ pc' = [pc EXCEPT ![c] = "credit_notes"]
           ELSE /\ pc' = [pc EXCEPT ![c] = "start_threads"]
                /\ UNCHANGED <<tasks, invoked, acked, k>>
    /\ UNCHANGED <<bundled_claims, num_of_workers, DEFAULT_NUM_OF_WORKERS,
                   main, work_queue, executor, invoices, claim_attachments,
                   credit_notes, claim_id, queue, unfinished, threads, log,
                   requests, kwargs, sessionVars>>

\* _process_credit_notes: the call returns, crn_response["id"] is read and
\* the credit note's attachment tasks are appended; or the error leaves the
\* function.
SubmitCreditNoteReturn(c) ==
    /\ pc[c] = "submit_credit_note"
    /\ \E r \in SubmitOutcomes(credit_notes[c][k[c]]) :
        /\ SetResult(c, r)
        /\ IF r = "ok"
           THEN /\ AppendTasks(c, NestedTasks(CreditNoteId(c, k[c]),
                                              credit_notes[c][k[c]]))
                /\ k' = [k EXCEPT ![c] = @ + 1]
                /\ pc' = [pc EXCEPT ![c] = "credit_notes"]
                /\ UNCHANGED executor
           ELSE /\ Finish(c, "raised")
                /\ UNCHANGED <<tasks, invoked, acked, k>>
    /\ UNCHANGED <<bundled_claims, num_of_workers, DEFAULT_NUM_OF_WORKERS,
                   main, work_queue, invoices, claim_attachments,
                   credit_notes, claim_id, queue, unfinished, threads, log,
                   requests, kwargs,
                   sessionVars>>

\* _process_credit_notes returns after the last credit note and
\* _process_tasks(tasks) is entered with the default worker count.
ProcessCreditNotesReturn(c) ==
    /\ pc[c] = "credit_notes"
    /\ k[c] > Len(credit_notes[c])
    /\ pc' = [pc EXCEPT ![c] = "start_threads"]
    /\ UNCHANGED <<bundled_claims, num_of_workers, DEFAULT_NUM_OF_WORKERS,
                   main, work_queue, executor, invoices, claim_attachments,
                   credit_notes, claim_id, tasks, k, queue, unfinished,
                   threads, calls, invoked, acked, log, requests, kwargs,
                   sessionVars>>

\* ------------------------------------------------------ _process_tasks
\* One iteration of the first loop: a Thread running _worker is started
\* and appended to threads.
\* The thread start as it would be if every invocation handed its workers
\* one queue kept by the Slade360 instance (here: the first claim's).
StartThreadSharedQueue(c) ==
    /\ pc[c] = "start_threads"
    /\ Len(threads[c]) < DEFAULT_NUM_OF_WORKERS
    /\ threads' = [threads EXCEPT ![c] =
                      Append(@, [pc |-> "get", task |-> None, stops |-> 0,
                                 queue |-> 1])]
    /\ UNCHANGED <<bundled_claims, num_of_workers, DEFAULT_NUM_OF_WORKERS,
                   main, work_queue, executor, pc, invoices,
                   claim_attachments, credit_notes, claim_id, tasks, k,
                   queue, unfinished, calls, invoked, acked, log, requests,
                   kwargs,
                   sessionVars>>

\* Thread(target=self._worker, args=(queue,)).start(): the worker is handed
\* the queue made by this call of _process_tasks.
StartThread(c) ==
    /\ pc[c] = "start_threads"
    /\ Len(threads[c]) < DEFAULT_NUM_OF_WORKERS
    /\ threads' = [threads EXCEPT ![c] =
                      Append(@, [pc |-> "get", task |-> None, stops |-> 0,
                                 queue |-> c])]
    /\ UNCHANGED <<bundled_claims, num_of_workers, DEFAULT_NUM_OF_WORKERS,
                   main, work_queue, executor, pc, invoices,
                   claim_attachments, credit_notes, claim_id, tasks, k,
                   queue, unfinished, calls, invoked, acked, log, requests,
                   kwargs,
                   sessionVars>>

StartThreadsDone(c) ==
    /\ pc[c] = "start_threads"
    /\ Len(threads[c]) = DEFAULT_NUM_OF_WORKERS
    /\ pc' = [pc EXCEPT ![c] = "put_tasks"]
    /\ k' = [k EXCEPT ![c] = 1]
    /\ UNCHANGED <<bundled_claims, num_of_workers, DEFAULT_NUM_OF_WORKERS,
                   main, work_queue, executor, invoices, claim_attachments,
                   credit_notes, claim_id, tasks, queue, unfinished, threads,
                   calls, invoked, acked, log, requests, kwargs,
                   sessionVars>>

\* The producer loop as it would be on a last-in-first-out queue.
PutTaskLifo(c) ==
    /\ pc[c] = "put_tasks"
    /\ k[c] <= Len(tasks[c])
    /\ queue' = [queue EXCEPT ![c] = <<k[c]>> \o @]
    /\ unfinished' = [unfinished EXCEPT ![c] = @ + 1]
    /\ k' = [k EXCEPT ![c] = @ + 1]
    /\ UNCHANGED <<bundled_claims, num_of_workers, DEFAULT_NUM_OF_WORKERS,
                   main, work_queue, executor, pc, invoices,
                   claim_attachments, credit_notes, claim_id, tasks, threads,
                   calls, invoked, acked, log, requests, kwargs,
                   sessionVars>>

\* queue.put(task) for the k-th task of the deque. The queue holds a
\* reference to the task: its position in tasks.
PutTask(c) ==
    /\ pc[c] = "put_tasks"
    /\ k[c] <= Len(tasks[c])
    /\ queue' = [queue EXCEPT ![c] = Append(@, k[c])]
    /\ unfinished' = [unfinished EXCEPT ![c] = @ + 1]
    /\ k' = [k EXCEPT ![c] = @ + 1]
    /\ UNCHANGED <<bundled_claims, num_of_workers, DEFAULT_NUM_OF_WORKERS,
                   main, work_queue, executor, pc, invoices,
                   claim_attachments, credit_notes, claim_id, tasks, threads,
                   calls, invoked, acked, log, requests, kwargs,
                   sessionVars>>

PutTasksDone(c) ==
    /\ pc[c] = "put_tasks"
    /\ k[c] > Len(tasks[c])
    /\ pc' = [pc EXCEPT ![c] = "queue_join"]
    /\ UNCHANGED <<bundled_claims, num_of_workers, DEFAULT_NUM_OF_WORKERS,
                   main, work_queue, executor, invoices, claim_attachments,
                   credit_notes, claim_id, tasks, k, queue, unfinished,
                   threads, calls, invoked, acked, log, requests, kwargs,
                   sessionVars>>

\* _process_tasks as it would be if it returned once the tasks are put.
QueueJoinEarlyReturn(c) ==
    /\ pc[c] = "queue_join"
    /\ Finish(c, "returned")
    /\ UNCHANGED <<bundled_claims, num_of_workers, DEFAULT_NUM_OF_WORKERS,
                   main, work_queue, invoices, claim_attachments,
                   credit_notes, claim_id, tasks, k, queue, unfinished,
                   threads, calls, invoked, acked, log, requests, kwargs,
                   sessionVars>>

\* queue.join() as it would be if it did not wait for the task_done calls.
QueueJoinNoWait(c) ==
    /\ pc[c] = "queue_join"
    /\ pc' = [pc EXCEPT ![c] = "put_sentinels"]
    /\ k' = [k EXCEPT ![c] = 1]
    /\ UNCHANGED <<bundled_claims, num_of_workers, DEFAULT_NUM_OF_WORKERS,
                   main, work_queue, executor, invoices, claim_attachments,
                   credit_notes, claim_id, tasks, queue, unfinished, threads,
                   calls, invoked, acked, log, requests, kwargs,
                   sessionVars>>

\* queue.join() returns once every put has been answered by a task_done.
QueueJoin(c) ==
    /\ pc[c] = "queue_join"
    /\ unfinished[c] = 0
    /\ pc' = [pc EXCEPT ![c] = "put_sentinels"]
    /\ k' = [k EXCEPT ![c] = 1]
    /\ UNCHANGED <<bundled_claims, num_of_workers, DEFAULT_NUM_OF_WORKERS,
                   main, work_queue, executor, invoices, claim_attachments,
                   credit_notes, claim_id, tasks, queue, unfinished, threads,
                   calls, invoked, acked, log, requests, kwargs,
                   sessionVars>>

\* queue.put(None), once per worker.
PutSentinel(c) ==
    /\ pc[c] = "put_sentinels"
    /\ k[c] <= DEFAULT_NUM_OF_WORKERS
    /\ queue' = [queue EXCEPT ![c] = Append(@, None)]
    /\ unfinished' = [unfinished EXCEPT ![c] = @ + 1]
    /\ k' = [k EXCEPT ![c] = @ + 1]
    /\ UNCHANGED <<bundled_claims, num_of_workers, DEFAULT_NUM_OF_WORKERS,
                   main, work_queue, executor, pc, invoices,
                   claim_attachments, credit_notes, claim_id, tasks, threads,
                   calls, invoked, acked, log, requests, kwargs,
                   sessionVars>>

PutSentinelsDone(c) ==
    /\ pc[c] = "put_sentinels"
    /\ k[c] > DEFAULT_NUM_OF_WORKERS
    /\ pc' = [pc EXCEPT ![c] = "join_threads"]
    /\ k' = [k EXCEPT ![c] = 1]
    /\ UNCHANGED <<bundled_claims, num_of_workers, DEFAULT_NUM_OF_WORKERS,
                   main, work_queue, executor, invoices, claim_attachments,
                   credit_notes, claim_id, tasks, queue, unfinished, threads,
                   calls, invoked, acked, log, requests, kwargs,
                   sessionVars>>

\* The last loop as it would be without waiting for the thread.
JoinThreadNoWait(c) ==
    /\ pc[c] = "join_threads"
    /\ k[c] <= Len(threads[c])
    /\ k' = [k EXCEPT ![c] = @ + 1]
    /\ UNCHANGED <<bundled_claims, num_of_workers, DEFAULT_NUM_OF_WORKERS,
                   main, work_queue, executor, pc, invoices,
                   claim_attachments, credit_notes, claim_id, tasks, queue,
                   unfinished, threads, calls, invoked, acked, log, requests,
                   kwargs,
                   sessionVars>>

\* t.join() for the k-th thread returns once that thread has terminated.
JoinThread(c) ==
    /\ pc[c] = "join_threads"
    /\ k[c] <= Len(threads[c])
    /\ threads[c][k[c]].pc = "dead"
    /\ k' = [k EXCEPT ![c] = @ + 1]
    /\ UNCHANGED <<bundled_claims, num_of_workers, DEFAULT_NUM_OF_WORKERS,
                   main, work_queue, executor, pc, invoices,
                   claim_attachments, credit_notes, claim_id, tasks, queue,
                   unfinished, threads, calls, invoked, acked, log, requests,
                   kwargs,
                   sessionVars>>

\* _process_tasks returns, and with it send_a_claim_and_its_children.
ProcessTasksReturn(c) ==
    /\ pc[c] = "join_threads"
    /\ k[c] > Len(threads[c])
    /\ Finish(c, "returned")
    /\ UNCHANGED <<bundled_claims, num_of_workers, DEFAULT_NUM_OF_WORKERS,
                   main, work_queue, invoices, claim_attachments,
                   credit_notes, claim_id, tasks, k, queue, unfinished,
                   threads, calls, invoked, acked, log, requests, kwargs,
                   sessionVars>>

\* ------------------------------------------------------------- _worker
\* Worker w of claim c runs _worker(queue) on the queue object it was started
\* with; the items of that queue are tasks of the invocation that made it.
SetThread(c, w, t) == threads' = [threads EXCEPT ![c] = Replace(@, w, t)]

\* The counter of task t of the invocation that owns queue q, plus one.
Count(f, q, t) == [f EXCEPT ![q] = Replace(@, t, @[t] + 1)]

\* queue.get() as it would be if it read a task without removing it.
WorkerGetPeek(c, w) ==
    LET q == threads[c][w].queue IN
    /\ threads[c][w].pc = "get"
    /\ queue[q] # <<>>
    /\ IF Head(queue[q]) = None
       THEN /\ queue' = [queue EXCEPT ![q] = Tail(@)]
            /\ SetThread(c, w, [threads[c][w] EXCEPT !.pc = "dead",
                                                     !.stops = @ + 1])
       ELSE /\ UNCHANGED queue
            /\ SetThread(c, w, [threads[c][w] EXCEPT !.pc = "call",
                                                     !.task = Head(queue[q])])
    /\ UNCHANGED <<bundled_claims, num_of_workers, DEFAULT_NUM_OF_WORKERS,
                   main, work_queue, executor, pc, invoices,
                   claim_attachments, credit_notes, claim_id, tasks, k,
                   unfinished, calls, invoked, acked, log, requests, kwargs,
                   sessionVars>>

\* task = queue.get(): blocks while the queue is empty; None ends the loop.
WorkerGet(c, w) ==
    LET q == threads[c][w].queue IN
    /\ threads[c][w].pc = "get"
    /\ queue[q] # <<>>
    /\ queue' = [queue EXCEPT ![q] = Tail(@)]
    /\ IF Head(queue[q]) = None
       THEN SetThread(c, w, [threads[c][w] EXCEPT !.pc = "dead",
                                                  !.stops = @ + 1])
       ELSE SetThread(c, w, [threads[c][w] EXCEPT !.pc = "call",
                                                  !.task = Head(queue[q])])
    /\ UNCHANGED <<bundled_claims, num_of_workers, DEFAULT_NUM_OF_WORKERS,
                   main, work_queue, executor, pc, invoices,
                   claim_attachments, credit_notes, claim_id, tasks, k,
                   unfinished, calls, invoked, acked, log, requests, kwargs,
                   sessionVars>>

\* What the server answers to an upload request.
Responses == {"ok", "error"}

\* An attachment operation as it would be if the file were looked up only
\* after the upload request had been sent.
AttachmentRunCheckAfterRequest(exists, response) ==
    [requested |-> TRUE,
     raised    |-> IF ~exists THEN "FileNotFoundError"
                   ELSE IF response = "ok" THEN "none" ELSE "HTTPError"]

\* submit_claim_attachment / submit_invoice_attachment: os.path.exists is
\* asked first and a missing file raises FileNotFoundError; only then is the
\* file opened and the request made, which returns or raises the HTTP error.
AttachmentRun(exists, response) ==
    IF ~exists
    THEN [requested |-> FALSE, raised |-> "FileNotFoundError"]
    ELSE [requested |-> TRUE,
          raised    |-> IF response = "ok" THEN "none" ELSE "HTTPError"]

\* What func(*args) can do.
TaskOutcomes ==
    {AttachmentRun(exists, response) : exists \in BOOLEAN, response \in Responses}

\* The request of func(*args), if it makes one.
Request(c, w, r) ==
    requests' = IF r.requested
                THEN requests \cup {[claim |-> threads[c][w].queue,
                                     task  |-> threads[c][w].task]}
                ELSE requests

\* The loop body as it would be without the except clause: the error runs
\* the finally block and ends the thread.
WorkerCallUncaught(c, w) ==
    LET q == threads[c][w].queue IN
    /\ threads[c][w].pc = "call"
    /\ invoked' = Count(invoked, q, threads[c][w].task)
    /\ \E r \in TaskOutcomes :
        /\ Request(c, w, r)
        /\ IF r.raised # "none"
           THEN /\ unfinished' = [unfinished EXCEPT ![q] = @ - 1]
                /\ acked' = Count(acked, q, threads[c][w].task)
                /\ SetThread(c, w, [threads[c][w] EXCEPT !.pc = "dead",
                                                         !.task = None])
           ELSE /\ SetThread(c, w, [threads[c][w] EXCEPT !.pc = "finally"])
                /\ UNCHANGED <<unfinished, acked>>
    /\ UNCHANGED <<bundled_claims, num_of_workers, DEFAULT_NUM_OF_WORKERS,
                   main, work_queue, executor, pc, invoices,
                   claim_attachments, credit_notes, claim_id, tasks, k,
                   queue, calls, log, kwargs,
                   sessionVars>>

\* func(*args) inside the try: an Exception is caught and logged.
WorkerCall(c, w) ==
    LET q == threads[c][w].queue IN
    /\ threads[c][w].pc = "call"
    /\ invoked' = Count(invoked, q, threads[c][w].task)
    /\ \E r \in TaskOutcomes :
        /\ Request(c, w, r)
        /\ log' = IF r.raised # "none"
                  THEN log \cup {[claim |-> q, task |-> threads[c][w].task,
                                  error |-> r.raised]}
                  ELSE log
    /\ SetThread(c, w, [threads[c][w] EXCEPT !.pc = "finally"])
    /\ UNCHANGED <<bundled_claims, num_of_workers, DEFAULT_NUM_OF_WORKERS,
                   main, work_queue, executor, pc, invoices,
                   claim_attachments, credit_notes, claim_id, tasks, k,
                   queue, unfinished, calls, acked, kwargs,
                   sessionVars>>

\* The loop body as it would be without queue.task_done().
WorkerTaskDoneSkipped(c, w) ==
    /\ threads[c][w].pc = "finally"
    /\ SetThread(c, w, [threads[c][w] EXCEPT !.pc = "get", !.task = None])
    /\ UNCHANGED <<bundled_claims, num_of_workers, DEFAULT_NUM_OF_WORKERS,
                   main, work_queue, executor, pc, invoices,
                   claim_attachments, credit_notes, claim_id, tasks, k,
                   queue, unfinished, calls, invoked, acked, log, requests,
                   kwargs,
                   sessionVars>>

\* finally: queue.task_done(), and the loop starts over.
WorkerTaskDone(c, w) ==
    LET q == threads[c][w].queue IN
    /\ threads[c][w].pc = "finally"
    /\ unfinished' = [unfinished EXCEPT ![q] = @ - 1]
    /\ acked' = Count(acked, q, threads[c][w].task)
    /\ SetThread(c, w, [threads[c][w] EXCEPT !.pc = "get", !.task = None])
    /\ UNCHANGED <<bundled_claims, num_of_workers, DEFAULT_NUM_OF_WORKERS,
                   main, work_queue, executor, pc, invoices,
                   claim_attachments, credit_notes, claim_id, tasks, k,
                   queue, calls, invoked, log, requests, kwargs,
                   sessionVars>>

\* ------------------------------------------------------------- session
\* Time passes.
Tick ==
    /\ now < MaxTime
    /\ now' = now + 1
    /\ UNCHANGED <<session_expiry, headers, mr, claimVars>>

\* _make_request as it would be without the expiry test.
MakeRequestEnterNoRefresh(t) ==
    /\ mr[t].pc = "idle"
    /\ mr' = [mr EXCEPT ![t] = [@ EXCEPT !.pc = "request",
                                         !.entered_at = now,
                                         !.expiry_read = session_expiry]]
    /\ UNCHANGED <<now, session_expiry, headers, claimVars>>

\* _make_request is entered: if datetime.now() > self.session_expiry then
\* self.authenticate() is called (its token request is sent), else the
\* thread goes on to the API request.
MakeRequestEnter(t) ==
    /\ mr[t].pc = "idle"
    /\ mr' = [mr EXCEPT ![t] =
                 IF now > session_expiry
                 THEN [@ EXCEPT !.pc = "authenticate",
                                !.authenticate = "called",
                                !.entered_at = now,
                                !.expiry_read = session_expiry]
                 ELSE [@ EXCEPT !.pc = "request",
                                !.entered_at = now,
                                !.expiry_read = session_expiry]]
    /\ UNCHANGED <<now, session_expiry, headers, claimVars>>

\* What the authorization server answers: an error status, or a token with
\* its lifetime in seconds.
TokenResponses ==
    [status : {"ok"}, expires_in : 0..MaxExpiresIn] \cup
    {[status |-> "error", expires_in |-> 0]}

\* authenticate, up to the assignment of session_expiry: raise_for_status
\* raises on an error status; otherwise session_expiry becomes
\* datetime.now() + timedelta(seconds=expires_in).
AuthenticateSetExpiry(t) ==
    /\ mr[t].pc = "authenticate"
    /\ \E r \in TokenResponses :
        IF r.status = "error"
        THEN /\ mr' = [mr EXCEPT ![t] = [@ EXCEPT !.pc = "raised",
                                                  !.authenticate = "raised"]]
             /\ UNCHANGED session_expiry
        ELSE /\ session_expiry' = now + r.expires_in
             /\ mr' = [mr EXCEPT ![t] = [@ EXCEPT !.pc = "headers",
                                                  !.expires_in = r.expires_in,
                                                  !.set_at = now]]
    /\ UNCHANGED <<now, headers, claimVars>>

\* authenticate, the rest: session.headers.update(new_headers), and return.
AuthenticateHeaders(t) ==
    /\ mr[t].pc = "headers"
    /\ headers' = t
    /\ mr' = [mr EXCEPT ![t] = [@ EXCEPT !.pc = "request",
                                         !.authenticate = "returned"]]
    /\ UNCHANGED <<now, session_expiry, claimVars>>

\* self.session.request(...) and response.raise_for_status().
SessionRequest(t) ==
    /\ mr[t].pc = "request"
    /\ \E r \in Responses :
        mr' = [mr EXCEPT ![t] = [@ EXCEPT
                  !.pc = IF r = "ok" THEN "done" ELSE "raised",
                  !.requested = TRUE]]
    /\ UNCHANGED <<now, session_expiry, headers, claimVars>>

\* The session alone: no batch is being sent, and the first token may have
\* any lifetime.
InitSession ==
    /\ bundled_claims = <<>>
    /\ num_of_workers = 1
    /\ DEFAULT_NUM_OF_WORKERS = 1
    /\ main = "call"
    /\ work_queue = <<>>
    /\ executor = [e \in ExecutorThreads |-> 0]
    /\ pc = <<>>
    /\ invoices = <<>>
    /\ claim_attachments = <<>>
    /\ credit_notes = <<>>
    /\ claim_id = <<>>
    /\ tasks = <<>>
    /\ k = <<>>
    /\ queue = <<>>
    /\ unfinished = <<>>
    /\ threads = <<>>
    /\ calls = <<>>
    /\ invoked = <<>>
    /\ acked = <<>>
    /\ log = {}
    /\ requests = {}
    /\ kwargs = <<>>
    /\ SessionInit(0..MaxExpiresIn)

NextSession ==
    \/ Tick
    \/ \E t \in RequestThreads :
        \/ MakeRequestEnter(t)
        \/ AuthenticateSetExpiry(t)
        \/ AuthenticateHeaders(t)
        \/ SessionRequest(t)

SpecSession == InitSession /\ [][NextSession]_vars

\* ---------------------------------------------------------------- next
Next ==
    \/ ExecutorSubmit
    \/ ExecutorMapReturn
    \/ \E e \in DOMAIN executor : ExecutorRun(e)
    \/ ExecutorShutdown
    \/ \E c \in Claims :
        \/ PopChildren(c)
        \/ CreateClaimCall(c)
        \/ CreateClaimReturn(c)
        \/ ProcessClaimAttachments(c)
        \/ SubmitInvoicesCall(c)
        \/ SubmitInvoicesReturn(c)
        \/ ProcessInvoicesReturn(c)
        \/ SubmitCreditNoteCall(c)
        \/ SubmitCreditNoteReturn(c)
        \/ ProcessCreditNotesReturn(c)
        \/ StartThread(c)
        \/ StartThreadsDone(c)
        \/ PutTask(c)
        \/ PutTasksDone(c)
        \/ QueueJoin(c)
        \/ PutSentinel(c)
        \/ PutSentinelsDone(c)
        \/ JoinThread(c)
        \/ ProcessTasksReturn(c)
        \/ \E w \in DOMAIN threads[c] :
            \/ WorkerGet(c, w)
            \/ WorkerCall(c, w)
            \/ WorkerTaskDone(c, w)

Spec == Init /\ [][Next]_vars

SpecBulk == InitBulk /\ [][Next]_vars

\* Both families of batches: one claim with all its children, or several
\* small claims.
InitAll == Init \/ InitBulk

SpecAll == InitAll /\ [][Next]_vars

\* A step of the thread that runs _process_tasks for claim c.
ProcessTasksStep(c) ==
    /\ c \in Claims
    /\ \/ StartThread(c)
       \/ StartThreadsDone(c)
       \/ PutTask(c)
       \/ PutTasksDone(c)
       \/ QueueJoin(c)
       \/ PutSentinel(c)
       \/ PutSentinelsDone(c)
       \/ JoinThread(c)
       \/ ProcessTasksReturn(c)

\* A step of worker thread w of claim c.
WorkerStep(c, w) ==
    /\ c \in Claims
    /\ w \in DOMAIN threads[c]
    /\ \/ WorkerGet(c, w)
       \/ WorkerCall(c, w)
       \/ WorkerTaskDone(c, w)

\* Every started thread that can take a step eventually takes one; an
\* operation called by a worker returns or raises (WorkerCall is one step).
Fairness ==
    \A c \in 1..MaxClaims :
        /\ WF_vars(ProcessTasksStep(c))
        /\ \A w \in 1..MaxCpu : WF_vars(WorkerStep(c, w))

SpecFair == Init /\ [][Next]_vars /\ Fairness

\* ------------------------------------------------------------ properties
RECURSIVE SumStops(_, _)
SumStops(ths, n) == IF n = 0 THEN 0 ELSE ths[n].stops + SumStops(ths, n - 1)

\* An error of task t of claim c has been logged.
Logged(c, t) == \E e \in log : e.claim = c /\ e.task = t

\* Creation call `op` number n of claim c has returned a response with an id.
CallOk(c, op, n) ==
    \E i \in DOMAIN calls[c] :
        calls[c][i] = [op |-> op, n |-> n, result |-> "ok"]

\* The workers that hold task t of claim c: dequeued, not yet acknowledged.
Holders(c, t) == {w \in DOMAIN threads[c] : threads[c][w].task = t}

\* How often item x is in the queue of claim c.
InQueue(c, x) == Cardinality({i \in DOMAIN queue[c] : queue[c][i] = x})

\* Task t of claim c has been handed to a worker.
Dispatched(c, t) == Holders(c, t) # {} \/ invoked[c][t] > 0

\* queue.put(task) has been called for task t of claim c.
WasPut(c, t) ==
    \/ pc[c] = "put_tasks" /\ t < k[c]
    \/ pc[c] \in {"queue_join", "put_sentinels", "join_threads", "returned"}

\* The stop sentinels put so far: those queued and those consumed.
SentinelsPut(c) == InQueue(c, None) + SumStops(threads[c], Len(threads[c]))

\* The creation call that made the parent an attachment task is bound to.
ParentOp(id) ==
    IF id[1] = "invoice" THEN "submit_invoices" ELSE "submit_credit_note"

C2_ClaimCreatedBeforeChildren ==
    \A c \in Claims :
        (\/ Len(calls[c]) >= 2
         \/ \E i \in DOMAIN calls[c] : calls[c][i].op # "create_claim"
         \/ \E t \in DOMAIN tasks[c] : Dispatched(c, t))
            => /\ Len(calls[c]) >= 1
               /\ calls[c][1] = [op |-> "create_claim", n |-> 0,
                                 result |-> "ok"]
               /\ claim_id[c] = ClaimId(c)
               /\ \A t \in DOMAIN tasks[c] :
                     tasks[c][t].func = "submit_claim_attachment"
                        => tasks[c][t].id = ClaimId(c)

\* A claim attachment has been invoked after an invoice call and a credit
\* note call were started.
C2_Witness ==
    \E c \in Claims :
        /\ \E i \in DOMAIN calls[c] : calls[c][i].op = "submit_invoices"
        /\ \E i \in DOMAIN calls[c] : calls[c][i].op = "submit_credit_note"
        /\ \E t \in DOMAIN tasks[c] :
              /\ tasks[c][t].func = "submit_claim_attachment"
              /\ invoked[c][t] = 1

\* C3: _process_tasks does not return until every task has been dequeued,
\* invoked and acknowledged with task_done; at its return no task is queued
\* or running.
C3_ReturnAfterAllTasksDone ==
    \A c \in Claims :
        pc[c] = "returned" =>
            \A t \in DOMAIN tasks[c] :
                /\ invoked[c][t] >= 1
                /\ acked[c][t] >= 1
                /\ InQueue(c, t) = 0
                /\ Holders(c, t) = {}

\* _process_tasks has returned from a run of two tasks on two workers.
C3_Witness ==
    \E c \in Claims :
        /\ pc[c] = "returned"
        /\ Len(tasks[c]) >= 2
        /\ Len(threads[c]) >= 2

\* C4: each task is dequeued by exactly one worker and invoked exactly once,
\* under every interleaving and whether or not it raises: a task that was
\* put is in exactly one place (queued, held by one worker, or
\* acknowledged), is never invoked or acknowledged twice, and has been
\* invoked once when _process_tasks returns.
C4_EachTaskExactlyOnce ==
    \A c \in Claims : \A t \in DOMAIN tasks[c] :
        /\ invoked[c][t] <= 1
        /\ acked[c][t] <= invoked[c][t]
        /\ Cardinality(Holders(c, t)) <= 1
        /\ InQueue(c, t) + Cardinality(Holders(c, t)) + acked[c][t]
              = (IF WasPut(c, t) THEN 1 ELSE 0)
        /\ pc[c] = "returned" => invoked[c][t] = 1

\* Two workers hold two different tasks at once, one of which has raised.
C4_Witness ==
    \E c \in Claims : \E v, w \in DOMAIN threads[c] :
        /\ v # w
        /\ threads[c][v].pc = "finally"
        /\ threads[c][w].pc = "call"
        /\ Logged(c, threads[c][v].task)

\* C5: a task that raises does not stop its worker: the error is logged, the
\* task is still acknowledged (its worker is in the finally block or has
\* called task_done), a worker ends only by consuming a sentinel, and
\* _process_tasks still returns with every task executed and every worker
\* joined.
C5_RaisingTaskDoesNotStopWorker ==
    /\ \A c \in Claims : \A w \in DOMAIN threads[c] :
          threads[c][w].pc = "dead" => threads[c][w].stops = 1
    /\ \A c \in Claims : \A t \in DOMAIN tasks[c] :
          (invoked[c][t] > 0 /\ acked[c][t] = 0) =>
              \E w \in Holders(c, t) : threads[c][w].pc = "finally"
    /\ \A e \in log :
          /\ invoked[e.claim][e.task] = 1
          /\ pc[e.claim] = "returned" =>
                /\ \A t \in DOMAIN tasks[e.claim] :
                      invoked[e.claim][t] = 1 /\ acked[e.claim][t] = 1
                /\ \A w \in DOMAIN threads[e.claim] :
                      threads[e.claim][w].pc = "dead"

\* The first task raised, a later task was executed all the same and
\* _process_tasks has returned.
C5_Witness ==
    \E c \in Claims :
        /\ pc[c] = "returned"
        /\ Len(tasks[c]) >= 2
        /\ Logged(c, 1)
        /\ ~Logged(c, 2)
        /\ invoked[c][2] = 1

\* C6: once _process_tasks has returned, none of the threads it started is
\* alive: each of the DEFAULT_NUM_OF_WORKERS workers has consumed a stop
\* sentinel and terminated.
C6_NoWorkerAliveAfterReturn ==
    \A c \in Claims :
        pc[c] = "returned" =>
            /\ Len(threads[c]) = DEFAULT_NUM_OF_WORKERS
            /\ \A w \in DOMAIN threads[c] :
                  threads[c][w].pc = "dead" /\ threads[c][w].stops >= 1

\* _process_tasks has returned from a run without tasks on two workers.
C6_Witness ==
    \E c \in Claims :
        /\ pc[c] = "returned"
        /\ Len(tasks[c]) = 0
        /\ Len(threads[c]) = 2

\* C7: no stop sentinel is enqueued while a task is queued or executing;
\* after the join barrier exactly W sentinels are enqueued, no worker
\* consumes more than one, and when _process_tasks returns each worker has
\* consumed one and the queue is empty.
C7_SentinelsAfterBarrier ==
    \A c \in Claims :
        /\ SentinelsPut(c) > 0 =>
              \A t \in DOMAIN tasks[c] :
                  InQueue(c, t) = 0 /\ Holders(c, t) = {}
        /\ SentinelsPut(c) <= DEFAULT_NUM_OF_WORKERS
        /\ pc[c] \in {"join_threads", "returned"} =>
              SentinelsPut(c) = DEFAULT_NUM_OF_WORKERS
        /\ \A w \in DOMAIN threads[c] : threads[c][w].stops <= 1
        /\ pc[c] = "returned" =>
              /\ queue[c] = <<>>
              /\ \A w \in DOMAIN threads[c] : threads[c][w].stops = 1

\* After a run with a task, one sentinel is still queued and the other has
\* stopped its worker.
C7_Witness ==
    \E c \in Claims :
        /\ Len(tasks[c]) >= 1
        /\ queue[c] = <<None>>
        /\ \E w \in DOMAIN threads[c] : threads[c][w].stops = 1
        /\ \E w \in DOMAIN threads[c] : threads[c][w].pc = "get"

\* Claim j was processed end to end: the claim, every invoice and every
\* credit note were created and every attachment task was executed.
Complete(j) ==
    /\ pc[j] = "returned"
    /\ CallOk(j, "create_claim", 0)
    /\ \A n \in DOMAIN invoices[j] : CallOk(j, "submit_invoices", n)
    /\ \A n \in DOMAIN credit_notes[j] : CallOk(j, "submit_credit_note", n)
    /\ \A t \in DOMAIN tasks[j] : invoked[j][t] = 1 /\ acked[j][t] = 1

\* Claim j ended with the failure of one of its own creation calls.
OwnFailure(j) ==
    /\ pc[j] = "raised"
    /\ Len(calls[j]) >= 1
    /\ calls[j][Len(calls[j])].result \in Failures

\* C8: when claim kk of a batch fails during creation, each other claim of
\* the batch is still processed end to end and reaches its own completion
\* or its own failure: that is how send_claims_in_bulk finds them when it
\* returns.
C8_FailureDoesNotAbortSiblings ==
    main = "returned" =>
        \A kk \in Claims :
            pc[kk] = "raised" =>
                \A j \in Claims \ {kk} : Complete(j) \/ OwnFailure(j)

\* The first claim of a batch failed during creation and the second one,
\* started after that failure, was completed with an attachment.
C8_Witness ==
    /\ main = "returned"
    /\ num_of_workers = 1
    /\ Len(bundled_claims) >= 2
    /\ OwnFailure(1)
    /\ Complete(2)
    /\ Len(tasks[2]) >= 1

\* C9: send_claims_in_bulk returns only after every bundled claim has been
\* started and its invocation has returned or raised; at its return no
\* claim is unstarted or in progress and no attachment worker is alive.
C9_BulkReturnsAfterAllClaims ==
    main = "returned" =>
        \A c \in Claims :
            /\ pc[c] \in Terminal
            /\ Len(calls[c]) >= 1
            /\ \A w \in DOMAIN threads[c] : threads[c][w].pc = "dead"

\* send_claims_in_bulk has returned from a batch of two claims run side by
\* side, one that raised and one that ran its workers.
C9_Witness ==
    /\ main = "returned"
    /\ num_of_workers >= 2
    /\ \E c, d \in Claims :
        /\ pc[c] = "raised"
        /\ pc[d] = "returned"
        /\ Len(threads[d]) >= 1

\* C10: at most num_of_workers bundled claims are in progress at any time.
C10_AtMostNClaimsInProgress ==
    Cardinality({c \in Claims : InProgress(c)}) <= num_of_workers

\* Every executor thread runs a claim while another claim waits.
C10_Witness ==
    /\ Cardinality({c \in Claims : InProgress(c)}) = num_of_workers
    /\ work_queue # <<>>

\* C11: when create_claim fails it is called exactly once, the error leaves
\* send_a_claim_and_its_children, and for that claim no invoice, credit
\* note or attachment call is made and no worker is started.
C11_FailedCreateClaimEndsTheClaim ==
    \A c \in Claims :
        (\E i \in DOMAIN calls[c] :
            calls[c][i].op = "create_claim" /\ calls[c][i].result \in Failures)
            => /\ Len(calls[c]) = 1
               /\ pc[c] = "raised"
               /\ tasks[c] = <<>>
               /\ threads[c] = <<>>
               /\ queue[c] = <<>>

\* create_claim raised for a claim that has an invoice, a credit note and a
\* claim attachment to submit.
C11_Witness ==
    \E c \in Claims :
        /\ calls[c] = <<[op |-> "create_claim", n |-> 0, result |-> "error"]>>
        /\ Len(invoices[c]) >= 1
        /\ Len(credit_notes[c]) >= 1
        /\ claim_attachments[c] >= 1

\* A creation call of an invoice or of a credit note of claim c has failed.
ChildFailed(c) ==
    \E i \in DOMAIN calls[c] :
        /\ calls[c][i].op \in {"submit_invoices", "submit_credit_note"}
        /\ calls[c][i].result \in Failures

\* C12: when the creation call of an invoice or of a credit note fails, the
\* error leaves send_a_claim_and_its_children: the failed call is the last
\* creation call of that claim (no later invoice or credit note is
\* submitted) and no worker is started for it. The other claims of the
\* batch are not affected: a claim raises only by a creation call of its
\* own, and when send_claims_in_bulk returns each other claim is complete or
\* has failed by itself.
C12_FailedChildEndsTheClaim ==
    \A c \in Claims :
        /\ \A i \in DOMAIN calls[c] :
              (/\ calls[c][i].op \in {"submit_invoices", "submit_credit_note"}
               /\ calls[c][i].result \in Failures)
                  => /\ i = Len(calls[c])
                     /\ pc[c] = "raised"
                     /\ threads[c] = <<>>
        /\ pc[c] = "raised" => OwnFailure(c)
        /\ (ChildFailed(c) /\ main = "returned") =>
              \A j \in Claims \ {c} : Complete(j) \/ OwnFailure(j)

\* The first invoice of a claim failed and neither its second invoice nor
\* its credit note was submitted.
C12_Witness ==
    \E c \in Claims :
        /\ Len(invoices[c]) >= 2
        /\ Len(credit_notes[c]) >= 1
        /\ Len(calls[c]) = 2
        /\ calls[c][2].op = "submit_invoices"
        /\ calls[c][2].result \in Failures
        /\ pc[c] = "raised"

\* Every request made for claim c so far was answered with success: no
\* creation call failed at the server or came back without an id, and no
\* attachment operation raised.
RemoteCallsSucceeded(c) ==
    /\ \A i \in DOMAIN calls[c] : calls[c][i].result \notin {"no_id", "error"}
    /\ \A e \in log : e.claim # c

\* The tasks of claim c bound to `id` that have been executed.
ExecutedFor(c, id) ==
    {t \in DOMAIN tasks[c] : tasks[c][t].id = id /\ invoked[c][t] = 1}

\* C13: for a bundled claim whose remote calls all succeed, each invoice
\* record that carries an invoice_attachments list of m entries is accepted
\* by submit_invoices, which returns its id, and m attachment tasks bound to
\* that id are executed.
C13_InvoiceWithAttachmentsIsSubmitted ==
    \A c \in Claims :
        (pc[c] \in Terminal /\ RemoteCallsSucceeded(c)) =>
            \A n \in DOMAIN invoices[c] :
                invoices[c][n].has_attachments =>
                    /\ CallOk(c, "submit_invoices", n)
                    /\ Cardinality(ExecutedFor(c, InvoiceId(c, n)))
                          = invoices[c][n].attachments

\* C14: for a bundled claim whose remote calls all succeed, each credit-note
\* record that carries a crn_attachments list of m entries is accepted by
\* submit_credit_note, which returns its id, and m attachment tasks bound to
\* that id are executed.
C14_CreditNoteWithAttachmentsIsSubmitted ==
    \A c \in Claims :
        (pc[c] \in Terminal /\ RemoteCallsSucceeded(c)) =>
            \A n \in DOMAIN credit_notes[c] :
                credit_notes[c][n].has_attachments =>
                    /\ CallOk(c, "submit_credit_note", n)
                    /\ Cardinality(ExecutedFor(c, CreditNoteId(c, n)))
                          = credit_notes[c][n].attachments

\* The example batch: one bundled claim with two invoices, one with one
\* attachment and one with none, no credit note and no claim attachment,
\* sent with two executor threads.
ExampleScenario ==
    /\ Len(bundled_claims) = 1
    /\ num_of_workers = 2
    /\ Len(invoices[1]) = 2
    /\ credit_notes[1] = <<>>
    /\ claim_attachments[1] = 0
    /\ \E n \in 1..2 :
          /\ invoices[1][n].has_attachments
          /\ invoices[1][n].attachments = 1
          /\ invoices[1][3 - n].attachments = 0

\* The calls of operation op made for claim c.
CallsOf(c, op) == {i \in DOMAIN calls[c] : calls[c][i].op = op}

\* C15: in the example batch with all remote calls succeeding, create_claim
\* is called once, submit_invoices twice, one attachment task is built and
\* processed, the task runner starts two workers and puts two sentinels, and
\* the invocation returns after both workers have ended.
C15_ExampleScenarioRuns ==
    (/\ ExampleScenario
     /\ pc[1] \in Terminal
     /\ RemoteCallsSucceeded(1))
        => /\ pc[1] = "returned"
           /\ Cardinality(CallsOf(1, "create_claim")) = 1
           /\ Cardinality(CallsOf(1, "submit_invoices")) = 2
           /\ Len(tasks[1]) = 1
           /\ invoked[1] = <<1>>
           /\ Len(threads[1]) = 2
           /\ SentinelsPut(1) = 2
           /\ \A w \in DOMAIN threads[1] : threads[1][w].pc = "dead"

\* C16: an attachment task whose file does not exist when it is executed
\* raises FileNotFoundError before any request is made for that attachment;
\* the worker catches and logs it (it goes on to the finally block and is
\* ended by a sentinel only), the claim does not end with an exception, and
\* when send_a_claim_and_its_children has returned every task of the claim
\* has been executed and acknowledged.
C16_MissingFileIsOnlyLogged ==
    \A e \in log :
        e.error = "FileNotFoundError" =>
            /\ [claim |-> e.claim, task |-> e.task] \notin requests
            /\ invoked[e.claim][e.task] = 1
            /\ acked[e.claim][e.task] = 0 =>
                  \E w \in Holders(e.claim, e.task) :
                      threads[e.claim][w].pc = "finally"
            /\ \A w \in DOMAIN threads[e.claim] :
                  threads[e.claim][w].pc = "dead" => threads[e.claim][w].stops = 1
            /\ pc[e.claim] # "raised"
            /\ pc[e.claim] = "returned" =>
                  \A t \in DOMAIN tasks[e.claim] :
                      invoked[e.claim][t] = 1 /\ acked[e.claim][t] = 1

\* The file of the first attachment was missing, the second attachment was
\* uploaded, and the invocation has returned.
C16_Witness ==
    \E c \in Claims :
        /\ pc[c] = "returned"
        /\ Len(tasks[c]) >= 2
        /\ [claim |-> c, task |-> 1, error |-> "FileNotFoundError"] \in log
        /\ [claim |-> c, task |-> 2] \in requests
        /\ ~Logged(c, 2)

\* C17: under fair scheduling of the threads, a _process_tasks call that has
\* been entered passes its join barrier and returns with every worker
\* terminated, for every task list and every number of workers.
C17_ProcessTasksEventuallyReturns ==
    \A c \in 1..MaxClaims :
        /\ (c \in Claims /\ pc[c] = "start_threads")
              ~> (c \in Claims /\ pc[c] = "put_sentinels")
        /\ (c \in Claims /\ pc[c] = "start_threads")
              ~> (/\ c \in Claims
                  /\ pc[c] = "returned"
                  /\ Len(threads[c]) = DEFAULT_NUM_OF_WORKERS
                  /\ \A w \in DOMAIN threads[c] : threads[c][w].pc = "dead")

\* _process_tasks has returned after a single worker processed several
\* tasks, one of which raised.
C17_Witness ==
    \E c \in Claims :
        /\ pc[c] = "returned"
        /\ DEFAULT_NUM_OF_WORKERS = 1
        /\ Len(threads[c]) = 1
        /\ threads[c][1].pc = "dead"
        /\ Len(tasks[c]) >= 2
        /\ \E t \in DOMAIN tasks[c] : Logged(c, t)

\* The pc values of an invocation inside its _process_tasks call.
InProcessTasks ==
    {"start_threads", "put_tasks", "queue_join", "put_sentinels",
     "join_threads"}

\* The stop sentinels the _process_tasks call of claim c has put so far.
SentinelsPutBy(c) ==
    IF pc[c] = "put_sentinels" THEN k[c] - 1
    ELSE IF pc[c] \in {"join_threads", "returned"}
         THEN DEFAULT_NUM_OF_WORKERS
         ELSE 0

\* C18: each invocation owns its queue and its workers: a worker reads only
\* the queue of the invocation that started it and holds only tasks built
\* for that claim, the items of a queue are tasks of its own claim or
\* sentinels, each sentinel an invocation has put is still in its queue or
\* has stopped one of its own workers, an invocation starts at most
\* DEFAULT_NUM_OF_WORKERS workers, and its workers exist only between the
\* start and the return of its _process_tasks call.
C18_QueueAndWorkersOwnedByInvocation ==
    \A c \in Claims :
        /\ \A w \in DOMAIN threads[c] :
              /\ threads[c][w].queue = c
              /\ threads[c][w].task # None =>
                    /\ threads[c][w].task \in DOMAIN tasks[c]
                    /\ tasks[c][threads[c][w].task].id[2] = c
        /\ \A i \in DOMAIN queue[c] :
              queue[c][i] = None \/ queue[c][i] \in DOMAIN tasks[c]
        /\ Cardinality({w \in DOMAIN threads[c] : threads[c][w].pc = "dead"})
              + InQueue(c, None) = SentinelsPutBy(c)
        /\ Len(threads[c]) <= DEFAULT_NUM_OF_WORKERS
        /\ threads[c] # <<>> => pc[c] \in InProcessTasks \cup {"returned"}
        /\ (\E w \in DOMAIN threads[c] : threads[c][w].pc # "dead")
              => pc[c] \in InProcessTasks

\* Workers of two claims each execute a task of their own claim at the same
\* time.
C18_Witness ==
    \E c, d \in Claims :
        /\ c # d
        /\ \E w \in DOMAIN threads[c] : threads[c][w].pc = "call"
        /\ \E w \in DOMAIN threads[d] : threads[d][w].pc = "call"

\* The keys of the sub-lists of a bundled record.
ChildKeys == {"invoices", "claim_attachments", "credit_notes"}

\* C19: the bundled record is consumed destructively: until the extraction
\* the record holds its three sub-lists, from the extraction on they are
\* gone from the caller's record for good, whether the invocation returns or
\* raises, while the remaining fields stay; create_claim is called with the
\* remaining fields only.
C19_RecordConsumedDestructively ==
    \A c \in Claims :
        /\ pc[c] \in NotStarted \cup {"entered"} =>
              ChildKeys \subseteq DOMAIN bundled_claims[c]
        /\ pc[c] \notin NotStarted \cup {"entered"} =>
              DOMAIN bundled_claims[c] = {"fields"}
        /\ calls[c] # <<>> =>
              /\ kwargs[c] = DOMAIN bundled_claims[c]
              /\ kwargs[c] \cap ChildKeys = {}

\* An invocation that extracted two invoices has failed at the second, and
\* the caller's record is left without its sub-lists.
C19_Witness ==
    \E c \in Claims :
        /\ pc[c] = "raised"
        /\ Len(invoices[c]) = 2
        /\ Len(calls[c]) = 3
        /\ calls[c][3].result = "error"
        /\ DOMAIN bundled_claims[c] = {"fields"}
        /\ kwargs[c] = {"fields"}

\* C20 as stated: the execution of the tasks starts in the order of the task
\* list whatever the number of workers: func(*args) of a task is called only
\* after func(*args) of every task before it has been called.
C20_ExecutionStartsInInputOrder ==
    \A c \in Claims : \A t, u \in DOMAIN tasks[c] :
        (u < t /\ invoked[c][t] > 0) => invoked[c][u] > 0

\* C20, amended: in _process_tasks all DEFAULT_NUM_OF_WORKERS workers have
\* been started before a task is enqueued; tasks are enqueued in the order
\* of the task list (the queue holds them in ascending position, sentinels
\* behind them) and dequeued in that order (a task is handed to a worker
\* only after every task before it); with one worker a task is invoked only
\* after every task before it has been acknowledged. With several workers
\* the calls of func(*args) need not begin in that order.
C20_TasksEnqueuedAndDequeuedInOrder ==
    \A c \in Claims :
        /\ (queue[c] # <<>> \/ \E t \in DOMAIN tasks[c] : Dispatched(c, t))
              => Len(threads[c]) = DEFAULT_NUM_OF_WORKERS
        /\ \A i, j \in DOMAIN queue[c] :
              (i < j /\ queue[c][j] # None) =>
                  queue[c][i] # None /\ queue[c][i] < queue[c][j]
        /\ \A t, u \in DOMAIN tasks[c] :
              u < t =>
                  /\ Dispatched(c, t) => Dispatched(c, u)
                  /\ InQueue(c, t) > 0 => (Dispatched(c, u) \/ InQueue(c, u) > 0)
                  /\ (DEFAULT_NUM_OF_WORKERS = 1 /\ invoked[c][t] > 0)
                        => acked[c][u] = 1

\* With two workers the second task has completed while the first,
\* dequeued before it, has not been invoked yet.
C20_Witness ==
    \E c \in Claims :
        /\ Len(threads[c]) = 2
        /\ Len(tasks[c]) >= 2
        /\ acked[c][2] = 1
        /\ invoked[c][1] = 0
        /\ Holders(c, 1) # {}

\* Thread t entered _make_request at a time later than session_expiry.
Late(t) == mr[t].entered_at > mr[t].expiry_read

\* Thread t has assigned session_expiry.
HasSetExpiry(t) == mr[t].pc = "headers" \/ mr[t].authenticate = "returned"

\* C21: a thread that enters _make_request later than session_expiry calls
\* authenticate, and issues its API request only after authenticate has
\* returned; a thread that enters not later than session_expiry calls no
\* authenticate; and when the token lifetimes are positive, session_expiry is
\* later than the time at which any thread's authenticate assigned it. This
\* holds for every thread that shares the session.
C21_ExpiredSessionIsRefreshedFirst ==
    \A t \in RequestThreads :
        mr[t].pc # "idle" =>
            /\ Late(t) => mr[t].authenticate # "none"
            /\ (Late(t) /\ (mr[t].requested \/ mr[t].pc = "request"))
                  => mr[t].authenticate = "returned"
            /\ ~Late(t) =>
                  /\ mr[t].authenticate = "none"
                  /\ mr[t].pc \in {"request", "done", "raised"}
            /\ ((\A u \in RequestThreads :
                     HasSetExpiry(u) => mr[u].expires_in > 0)
                /\ HasSetExpiry(t))
                  => session_expiry > mr[t].set_at

\* Two threads entered after the expiry and both authenticated: one has
\* issued its request, the other has just assigned session_expiry.
C21_Witness ==
    \E t, u \in RequestThreads :
        /\ t # u
        /\ Late(t) /\ Late(u)
        /\ mr[t].requested /\ mr[t].authenticate = "returned"
        /\ mr[u].pc = "headers" /\ mr[u].expires_in > 0

\* A creation call of claim c has raised or returned a response without id.
CreationFailed(c) ==
    \E i \in DOMAIN calls[c] : calls[c][i].result \in Failures

\* C22: when a creation call of a claim fails or returns no id, no
\* attachment operation is ever invoked for that claim: the invocation ends
\* with the error, the tasks built so far are never put on a queue, no
\* worker is started and no upload request or task error is recorded.
C22_FailedCreationDiscardsAllTasks ==
    \A c \in Claims :
        CreationFailed(c) =>
            /\ pc[c] = "raised"
            /\ \A t \in DOMAIN tasks[c] : invoked[c][t] = 0 /\ acked[c][t] = 0
            /\ threads[c] = <<>>
            /\ queue[c] = <<>>
            /\ \A e \in log : e.claim # c
            /\ \A q \in requests : q.claim # c

\* Claim-level attachment tasks had been built and an invoice created when
\* the credit note failed: the tasks are left unexecuted.
C22_Witness ==
    \E c \in Claims :
        /\ pc[c] = "raised"
        /\ Len(tasks[c]) >= 2
        /\ CallOk(c, "submit_invoices", 1)
        /\ calls[c][Len(calls[c])].op = "submit_credit_note"
        /\ calls[c][Len(calls[c])].result \in Failures
        /\ \A t \in DOMAIN tasks[c] : invoked[c][t] = 0

\* C23: send_claims_in_bulk never ends with an exception because a claim
\* failed, and the failure of a claim during creation is written nowhere:
\* the caller is submitting, waiting for the executor, or has returned
\* normally, and the log holds no record for a claim that raised.
C23_BulkNeverRaisesNorReports ==
    /\ main \in {"call", "shutdown", "returned"}
    /\ \A c \in Claims : pc[c] = "raised" => \A e \in log : e.claim # c

\* Every claim of a full batch failed during creation, nothing was logged
\* and send_claims_in_bulk has returned.
C23_Witness ==
    /\ main = "returned"
    /\ Len(bundled_claims) = MaxClaims
    /\ \A c \in Claims : pc[c] = "raised" /\ CreationFailed(c)
    /\ log = {}

\* C24: the attachment phase of an invocation does not overlap its creation
\* phase: once a worker has been started or a task has been queued, handed
\* to a worker or invoked, every invoice and every credit note of the claim
\* has a submit call that returned with an id, and no creation call is
\* pending or made later.
C24_AttachmentsAfterAllCreations ==
    \A c \in Claims :
        (\/ threads[c] # <<>>
         \/ queue[c] # <<>>
         \/ \E t \in DOMAIN tasks[c] : Dispatched(c, t))
            => /\ \A n \in DOMAIN invoices[c] : CallOk(c, "submit_invoices", n)
               /\ \A n \in DOMAIN credit_notes[c] :
                     CallOk(c, "submit_credit_note", n)
               /\ \A i \in DOMAIN calls[c] : calls[c][i].result = "ok"
               /\ Len(calls[c]) = 1 + Len(invoices[c]) + Len(credit_notes[c])

\* The first attachment operation of a claim with two invoices and a credit
\* note is being called by a worker; all four creation calls have returned.
C24_Witness ==
    \E c \in Claims :
        /\ Len(invoices[c]) = 2
        /\ Len(credit_notes[c]) = 1
        /\ Len(calls[c]) = 4
        /\ \E w \in DOMAIN threads[c] :
              threads[c][w].pc = "call" /\ threads[c][w].task = 1
        /\ \A t \in DOMAIN tasks[c] : invoked[c][t] = 0

\* The creation calls of claim c in the order of the code: create_claim,
\* one submit_invoices per invoice, one submit_credit_note per credit note.
ExpectedCalls(c) ==
    <<[op |-> "create_claim", n |-> 0]>>
    \o [n \in 1..Len(invoices[c]) |-> [op |-> "submit_invoices", n |-> n]]
    \o [n \in 1..Len(credit_notes[c]) |->
           [op |-> "submit_credit_note", n |-> n]]

\* The place of a task's parent in the order of the phases.
TaskRank(task) ==
    IF task.id[1] = "claim" THEN 1
    ELSE IF task.id[1] = "invoice" THEN 2 ELSE 3

\* C25: the creation calls of an invocation are made one after the other in
\* the order create_claim, submit_invoices per invoice in list order,
\* submit_credit_note per credit note in list order: the calls made so far
\* are a prefix of that sequence, and a call is made only when every call
\* before it has returned with an id. When the task phase is reached each
\* call has been made exactly once. The task list holds the claim
\* attachments first, then the invoice attachments, then the credit-note
\* attachments, each group in the order of its list.
C25_CreationCallsSequentialInOrder ==
    \A c \in Claims :
        /\ Len(calls[c]) <= Len(ExpectedCalls(c))
        /\ \A i \in DOMAIN calls[c] :
              /\ calls[c][i].op = ExpectedCalls(c)[i].op
              /\ calls[c][i].n = ExpectedCalls(c)[i].n
              /\ i < Len(calls[c]) => calls[c][i].result = "ok"
        /\ pc[c] \in InProcessTasks \cup {"returned"} =>
              /\ Len(calls[c]) = Len(ExpectedCalls(c))
              /\ \A i \in DOMAIN calls[c] : calls[c][i].result = "ok"
        /\ \A t, u \in DOMAIN tasks[c] :
              t < u =>
                  /\ TaskRank(tasks[c][t]) <= TaskRank(tasks[c][u])
                  /\ tasks[c][t].id = tasks[c][u].id =>
                        tasks[c][t].attachment < tasks[c][u].attachment
                  /\ (TaskRank(tasks[c][t]) = TaskRank(tasks[c][u])
                      /\ TaskRank(tasks[c][t]) > 1)
                        => tasks[c][t].id[3] <= tasks[c][u].id[3]

\* A claim with two claim attachments, two invoices and a credit note has
\* gone through: four creation calls, then its two tasks.
C25_Witness ==
    \E c \in Claims :
        /\ pc[c] = "returned"
        /\ Len(invoices[c]) = 2
        /\ Len(credit_notes[c]) = 1
        /\ Len(calls[c]) = 4
        /\ Len(tasks[c]) = 2
        /\ calls[c][4] = [op |-> "submit_credit_note", n |-> 1,
                          result |-> "ok"]

====
